---- MODULE Spec2Model ----
(***************************************************************************)
(* A model of the CSS selector builder of src/05-objects-tasks.js: the     *)
(* class ElementsSelector and the facade object cssSelectorBuilder; and of *)
(* the function Rectangle of the same file.                                *)
(*                                                                         *)
(* Texts are TLA+ strings, so concatenation and joining are computed, not  *)
(* abstracted.  A JavaScript property that may be undefined is a sequence: *)
(* <<>> is undefined and <<v>> is the value v.  Objects live in a heap, a  *)
(* sequence of records; an object's identity is its index in the heap.     *)
(***************************************************************************)
EXTENDS Integers, Sequences, FiniteSets, TLC

VARIABLES
    heap,    \* the ElementsSelector objects created so far, by identity
    calls,   \* history: per object, the fragment-setter calls that returned
    parts,   \* history: per object made by the facade's combine, the texts
             \* and combinators it was combined from, flattened
    used,    \* history: the number of calls that returned an object
    limit,   \* the bounds the specification puts on the callers
    rect     \* the object Rectangle returned last, the arguments it was made
             \* from (history) and the number getArea returned last

vars == <<heap, calls, parts, used, limit, rect>>

(***************************** bounds **************************************)

\* The number of objects the heap may hold.
MaxBuilders == 2

\* The number of calls that may return an object: those of the facade and
\* the fragment-setter calls on the objects, all objects together.
MaxOps == 3

\* The same two bounds where the claim is about combinations of several
\* objects.
WideBuilders == 3

WideOps == 3

\* The largest number the callers pass as a side of a rectangle.
MaxSide == 2

\* The numbers the callers pass as a side: integers, whose products
\* JavaScript's numbers hold exactly.
Sides == -1 .. MaxSide

\* The argument values the callers pass: the empty text and another.
Values == {"", "a"}

\* The combinators the callers pass to combine: the space and one of the
\* three symbols ('+', '~', '>'), which combine and stringify pass through
\* alike, unread.
Combinators == {" ", "+"}

(************************** JavaScript values ******************************)

Undefined == <<>>

Some(v) == <<v>>

\* if (x) for a property that is undefined or a string: '' is falsy.
Truthy(x) == x # Undefined /\ x[1] # ""

\* if (x) for a property that is undefined or an array: [] is truthy.
TruthyArray(x) == x # Undefined

\* `${x}` for a property that is undefined or a string.
Template(x) == IF x = Undefined THEN "undefined" ELSE x[1]

\* Array.prototype.join on an array of strings.
RECURSIVE join(_, _)
join(arr, sep) ==
    IF arr = <<>> THEN ""
    ELSE IF Len(arr) = 1 THEN arr[1]
    ELSE arr[1] \o sep \o join(Tail(arr), sep)

(***************************** errors **************************************)

NoError == "none"

OrderError ==
    "Selector parts should be arranged in the following order: element, id, class, attribute, pseudo-class, pseudo-element"

DuplicateError ==
    "Element, id and pseudo-element should not occur more then one time inside the selector"

\* What x.join(...) raises when x is undefined.
TypeError == "TypeError"

(************************ class ElementsSelector ***************************)

\* The constructor starting the cursor at 1.
ElementsSelectorStartsAtOne ==
    [ currOrder       |-> 1,
      myElement       |-> Undefined,
      myId            |-> Undefined,
      myClass         |-> Undefined,
      myAttr          |-> Undefined,
      myPseudoClass   |-> Undefined,
      myPseudoElement |-> Undefined,
      mySelector      |-> Undefined,
      myCombinator    |-> Undefined,
      mySelector2     |-> Undefined ]

\* The object after the constructor: only currOrder is assigned.
ElementsSelector ==
    [ currOrder       |-> 0,
      myElement       |-> Undefined,
      myId            |-> Undefined,
      myClass         |-> Undefined,
      myAttr          |-> Undefined,
      myPseudoClass   |-> Undefined,
      myPseudoElement |-> Undefined,
      mySelector      |-> Undefined,
      myCombinator    |-> Undefined,
      mySelector2     |-> Undefined ]

\* The table of checkOrder.
partOrder ==
    [ p \in {"element", "id", "class", "attr", "pseudo-class", "pseudo-element"} |->
        CASE p = "element"        -> 0
          [] p = "id"             -> 1
          [] p = "class"          -> 2
          [] p = "attr"           -> 3
          [] p = "pseudo-class"   -> 4
          [] p = "pseudo-element" -> 5 ]

\* A method's outcome: the error it threw (or none) and the object as the
\* method left it, which on a throw holds the assignments made before it.
Outcome(err, obj) == [thrown |-> err, this |-> obj]

\* checkOrder comparing with <= : the rank in use is refused as well.
checkOrderNoEqual(this, part) ==
    IF partOrder[part] <= this.currOrder
    THEN Outcome(OrderError, this)
    ELSE Outcome(NoError, [this EXCEPT !.currOrder = partOrder[part]])

\* checkOrder without its assignment: the cursor stays where it is.
checkOrderKeepsCursor(this, part) ==
    IF partOrder[part] < this.currOrder
    THEN Outcome(OrderError, this)
    ELSE Outcome(NoError, this)

checkOrder(this, part) ==
    IF partOrder[part] < this.currOrder
    THEN Outcome(OrderError, this)
    ELSE Outcome(NoError, [this EXCEPT !.currOrder = partOrder[part]])

\* element without the check of myElement: a second call overwrites.
elementOverwrites(this, value) ==
    LET co == checkOrder(this, "element") IN
    IF co.thrown # NoError THEN co
    ELSE Outcome(NoError, [co.this EXCEPT !.myElement = Some(value)])

element(this, value) ==
    LET co == checkOrder(this, "element") IN
    IF co.thrown # NoError THEN co
    ELSE IF Truthy(co.this.myElement) THEN Outcome(DuplicateError, co.this)
    ELSE Outcome(NoError, [co.this EXCEPT !.myElement = Some(value)])

\* id with its two checks exchanged: the duplicate test first.
idChecksDuplicateFirst(this, value) ==
    IF Truthy(this.myId) THEN Outcome(DuplicateError, this)
    ELSE LET co == checkOrder(this, "id") IN
         IF co.thrown # NoError THEN co
         ELSE Outcome(NoError, [co.this EXCEPT !.myId = Some(value)])

id(this, value) ==
    LET co == checkOrder(this, "id") IN
    IF co.thrown # NoError THEN co
    ELSE IF Truthy(co.this.myId) THEN Outcome(DuplicateError, co.this)
    ELSE Outcome(NoError, [co.this EXCEPT !.myId = Some(value)])

\* class with unshift for push: the new value goes first.
classUnshift(this, value) ==
    LET co == checkOrder(this, "class") IN
    IF co.thrown # NoError THEN co
    ELSE LET arr == IF ~TruthyArray(co.this.myClass) THEN <<>> ELSE co.this.myClass[1]
         IN  Outcome(NoError, [co.this EXCEPT !.myClass = Some(<<value>> \o arr)])

class(this, value) ==
    LET co == checkOrder(this, "class") IN
    IF co.thrown # NoError THEN co
    ELSE LET arr == IF ~TruthyArray(co.this.myClass) THEN <<>> ELSE co.this.myClass[1]
         IN  Outcome(NoError, [co.this EXCEPT !.myClass = Some(Append(arr, value))])

attr(this, value) ==
    LET co == checkOrder(this, "attr") IN
    IF co.thrown # NoError THEN co
    ELSE Outcome(NoError, [co.this EXCEPT !.myAttr = Some(value)])

pseudoClass(this, value) ==
    LET co == checkOrder(this, "pseudo-class") IN
    IF co.thrown # NoError THEN co
    ELSE LET arr == IF ~TruthyArray(co.this.myPseudoClass) THEN <<>>
                    ELSE co.this.myPseudoClass[1]
         IN  Outcome(NoError, [co.this EXCEPT !.myPseudoClass = Some(Append(arr, value))])

\* pseudoElement assigning before its duplicate test.
pseudoElementAssignsFirst(this, value) ==
    LET co == checkOrder(this, "pseudo-element") IN
    IF co.thrown # NoError THEN co
    ELSE IF Truthy(co.this.myPseudoElement)
         THEN Outcome(DuplicateError, [co.this EXCEPT !.myPseudoElement = Some(value)])
    ELSE Outcome(NoError, [co.this EXCEPT !.myPseudoElement = Some(value)])

pseudoElement(this, value) ==
    LET co == checkOrder(this, "pseudo-element") IN
    IF co.thrown # NoError THEN co
    ELSE IF Truthy(co.this.myPseudoElement) THEN Outcome(DuplicateError, co.this)
    ELSE Outcome(NoError, [co.this EXCEPT !.myPseudoElement = Some(value)])

combine(this, selector1, combinator, selector2) ==
    Outcome(NoError, [this EXCEPT !.mySelector   = Some(selector1),
                                  !.myCombinator = Some(combinator),
                                  !.mySelector2  = Some(selector2)])

\* A stringify result: the error thrown (or none) and the text returned.
Returned(err, text) == [thrown |-> err, value |-> text]

\* result += `<open>${x.join(sep)}`, which throws when x is undefined.
appendJoined(r, open, x, sep) ==
    IF r.thrown # NoError THEN r
    ELSE IF x = Undefined THEN Returned(TypeError, "")
    ELSE Returned(NoError, r.value \o open \o join(x[1], sep))

\* stringify without the test of myClass: join is called on undefined.
stringifyJoinsUndefined(this) ==
    IF Truthy(this.mySelector) /\ Truthy(this.mySelector2)
    THEN Returned(NoError, Template(this.mySelector) \o " " \o Template(this.myCombinator)
                           \o " " \o Template(this.mySelector2))
    ELSE
      LET r0 == Returned(NoError, "")
          r1 == IF Truthy(this.myElement)
                THEN Returned(NoError, r0.value \o Template(this.myElement)) ELSE r0
          r2 == IF Truthy(this.myId)
                THEN Returned(NoError, r1.value \o "#" \o Template(this.myId)) ELSE r1
          r3 == appendJoined(r2, ".", this.myClass, ".")
          r4 == IF r3.thrown = NoError /\ Truthy(this.myAttr)
                THEN Returned(NoError, r3.value \o "[" \o Template(this.myAttr) \o "]") ELSE r3
          r5 == IF r4.thrown = NoError /\ TruthyArray(this.myPseudoClass)
                THEN appendJoined(r4, ":", this.myPseudoClass, ":") ELSE r4
          r6 == IF r5.thrown = NoError /\ Truthy(this.myPseudoElement)
                THEN Returned(NoError, r5.value \o "::" \o Template(this.myPseudoElement)) ELSE r5
      IN r6

stringify(this) ==
    IF Truthy(this.mySelector) /\ Truthy(this.mySelector2)
    THEN Returned(NoError, Template(this.mySelector) \o " " \o Template(this.myCombinator)
                           \o " " \o Template(this.mySelector2))
    ELSE
      LET r0 == Returned(NoError, "")
          r1 == IF Truthy(this.myElement)
                THEN Returned(NoError, r0.value \o Template(this.myElement)) ELSE r0
          r2 == IF Truthy(this.myId)
                THEN Returned(NoError, r1.value \o "#" \o Template(this.myId)) ELSE r1
          r3 == IF TruthyArray(this.myClass)
                THEN appendJoined(r2, ".", this.myClass, ".") ELSE r2
          r4 == IF r3.thrown = NoError /\ Truthy(this.myAttr)
                THEN Returned(NoError, r3.value \o "[" \o Template(this.myAttr) \o "]") ELSE r3
          r5 == IF r4.thrown = NoError /\ TruthyArray(this.myPseudoClass)
                THEN appendJoined(r4, ":", this.myPseudoClass, ":") ELSE r4
          r6 == IF r5.thrown = NoError /\ Truthy(this.myPseudoElement)
                THEN Returned(NoError, r5.value \o "::" \o Template(this.myPseudoElement)) ELSE r5
      IN r6

(*************************** the callers ***********************************)

Objects == 1 .. Len(heap)

\* Invoke with the class array kept in one place for all the objects (on
\* the prototype): what one object pushes, every object holds.
InvokeSharedClasses(b, part, value, out) ==
    /\ out.thrown = NoError => used < limit.ops
    /\ heap' = [i \in DOMAIN heap |->
                  IF i = b THEN out.this ELSE [heap[i] EXCEPT !.myClass = out.this.myClass]]
    /\ calls' = IF out.thrown = NoError
                THEN [calls EXCEPT ![b] = Append(@, <<part, value>>)]
                ELSE calls
    /\ used' = IF out.thrown = NoError THEN used + 1 ELSE used
    /\ UNCHANGED <<parts, limit, rect>>

\* Invoke with combine keeping its first argument by reference: the object
\* made from b follows what is set on b afterwards.
InvokeFollowedByCombined(b, part, value, out) ==
    /\ out.thrown = NoError => used < limit.ops
    /\ heap' = [i \in DOMAIN heap |->
                  IF i = b THEN out.this
                  ELSE IF heap[i].mySelector = Some(stringify(heap[b]).value)
                  THEN [heap[i] EXCEPT !.mySelector = Some(stringify(out.this).value)]
                  ELSE heap[i]]
    /\ calls' = IF out.thrown = NoError
                THEN [calls EXCEPT ![b] = Append(@, <<part, value>>)]
                ELSE calls
    /\ used' = IF out.thrown = NoError THEN used + 1 ELSE used
    /\ UNCHANGED <<parts, limit, rect>>

\* obj.<part>(value) on the object b of the heap, where out is the method's
\* outcome: the object keeps what the method assigned, and the method
\* returns this unless it threw.
Invoke(b, part, value, out) ==
    /\ out.thrown = NoError => used < limit.ops
    /\ heap' = [heap EXCEPT ![b] = out.this]
    /\ calls' = IF out.thrown = NoError
                THEN [calls EXCEPT ![b] = Append(@, <<part, value>>)]
                ELSE calls
    /\ used' = IF out.thrown = NoError THEN used + 1 ELSE used
    /\ UNCHANGED <<parts, limit, rect>>

ElementsSelector_element(b, value) == Invoke(b, "element", value, element(heap[b], value))

ElementsSelector_id(b, value) == Invoke(b, "id", value, id(heap[b], value))

ElementsSelector_class(b, value) == Invoke(b, "class", value, class(heap[b], value))

ElementsSelector_attr(b, value) == Invoke(b, "attr", value, attr(heap[b], value))

ElementsSelector_pseudoClass(b, value) ==
    Invoke(b, "pseudo-class", value, pseudoClass(heap[b], value))

ElementsSelector_pseudoElement(b, value) ==
    Invoke(b, "pseudo-element", value, pseudoElement(heap[b], value))

\* obj.stringify() on the object b of the heap: no property is assigned,
\* and the text goes to the caller.
ElementsSelector_stringify(b) ==
    /\ UNCHANGED <<heap, calls, parts, used, limit, rect>>
    /\ stringify(heap[b]).thrown \in {NoError, TypeError}

\* cssSelectorBuilder.<part>(value): new ElementsSelector().<part>(value),
\* where out is the method's outcome on the new object.  The caller gets the
\* new object only if the method returned.
Start(part, value, out) ==
    /\ Len(heap) < limit.builders
    /\ used < limit.ops
    /\ IF out.thrown = NoError
       THEN /\ heap' = Append(heap, out.this)
            /\ calls' = Append(calls, << <<part, value>> >>)
            /\ parts' = Append(parts, <<>>)
            /\ used' = used + 1
       ELSE UNCHANGED <<heap, calls, parts, used>>
    /\ UNCHANGED <<limit, rect>>

cssSelectorBuilder_element(value) == Start("element", value, element(ElementsSelector, value))

cssSelectorBuilder_id(value) == Start("id", value, id(ElementsSelector, value))

cssSelectorBuilder_class(value) == Start("class", value, class(ElementsSelector, value))

cssSelectorBuilder_attr(value) == Start("attr", value, attr(ElementsSelector, value))

cssSelectorBuilder_pseudoClass(value) ==
    Start("pseudo-class", value, pseudoClass(ElementsSelector, value))

cssSelectorBuilder_pseudoElement(value) ==
    Start("pseudo-element", value, pseudoElement(ElementsSelector, value))

\* The texts and combinators an argument of combine stands for: those it was
\* combined from if combine made it and no setter has returned on it since,
\* and its own text otherwise.
PartsOf(b) ==
    IF parts[b] # <<>> /\ calls[b] = <<>> THEN parts[b] ELSE <<stringify(heap[b]).value>>

\* cssSelectorBuilder.combine(selector1, combinator, selector2) on two
\* objects of the heap.
cssSelectorBuilder_combine(selector1, combinator, selector2) ==
    LET selector1Str == stringify(heap[selector1])
        selector2Str == stringify(heap[selector2])
        out == combine(ElementsSelector, selector1Str.value, combinator, selector2Str.value)
    IN
    /\ Len(heap) < limit.builders
    /\ used < limit.ops
    /\ IF selector1Str.thrown # NoError \/ selector2Str.thrown # NoError
       THEN UNCHANGED <<heap, calls, parts, used>>
       ELSE /\ heap' = Append(heap, out.this)
            /\ calls' = Append(calls, <<>>)
            /\ parts' = Append(parts, PartsOf(selector1) \o <<combinator>> \o PartsOf(selector2))
            /\ used' = used + 1
    /\ UNCHANGED <<limit, rect>>

(***************************** Rectangle ***********************************)

\* Rectangle(width, height): the object literal returned.
Rectangle(width, height) == [width |-> width, height |-> height]

\* getArea with the width taken for both sides.
getAreaOfSquare(this) == this.width * this.width

\* getArea(): this.width * this.height, read when it is called.
getArea(this) == this.width * this.height

\* No rectangle was made and no area returned.
NoRectangle == [obj |-> Undefined, made |-> Undefined, area |-> Undefined]

\* The selector objects play no part in the calls on a rectangle.
SelectorsUnchanged == UNCHANGED <<heap, calls, parts, used, limit>>

\* const r = new Rectangle(width, height)
Rectangle_new(width, height) ==
    /\ rect' = [rect EXCEPT !.obj = Some(Rectangle(width, height)),
                            !.made = Some(<<width, height>>)]
    /\ SelectorsUnchanged

\* r.width = value, by the caller: the object is a plain one.
Rectangle_setWidth(value) ==
    /\ rect.obj # Undefined
    /\ rect' = [rect EXCEPT !.obj = Some([rect.obj[1] EXCEPT !.width = value])]
    /\ SelectorsUnchanged

\* r.height = value, by the caller.
Rectangle_setHeight(value) ==
    /\ rect.obj # Undefined
    /\ rect' = [rect EXCEPT !.obj = Some([rect.obj[1] EXCEPT !.height = value])]
    /\ SelectorsUnchanged

\* r.getArea()
Rectangle_getArea ==
    /\ rect.obj # Undefined
    /\ rect' = [rect EXCEPT !.area = Some(getArea(rect.obj[1]))]
    /\ SelectorsUnchanged

(************************** the specification ******************************)

\* The bounds on the callers: they create at most builders objects and get
\* an object returned at most ops times.
Limit(builders, ops) == [builders |-> builders, ops |-> ops]

\* No object exists before the first call of the facade.
NoObject ==
    /\ heap = <<>>
    /\ calls = <<>>
    /\ parts = <<>>
    /\ used = 0
    /\ rect = NoRectangle

\* One call, of the facade or on an object of the heap.
Next ==
    \/ \E v \in Values : cssSelectorBuilder_element(v)
    \/ \E v \in Values : cssSelectorBuilder_id(v)
    \/ \E v \in Values : cssSelectorBuilder_class(v)
    \/ \E v \in Values : cssSelectorBuilder_attr(v)
    \/ \E v \in Values : cssSelectorBuilder_pseudoClass(v)
    \/ \E v \in Values : cssSelectorBuilder_pseudoElement(v)
    \/ \E s1 \in Objects, s2 \in Objects, c \in Combinators : cssSelectorBuilder_combine(s1, c, s2)
    \/ \E b \in Objects, v \in Values : ElementsSelector_element(b, v)
    \/ \E b \in Objects, v \in Values : ElementsSelector_id(b, v)
    \/ \E b \in Objects, v \in Values : ElementsSelector_class(b, v)
    \/ \E b \in Objects, v \in Values : ElementsSelector_attr(b, v)
    \/ \E b \in Objects, v \in Values : ElementsSelector_pseudoClass(b, v)
    \/ \E b \in Objects, v \in Values : ElementsSelector_pseudoElement(b, v)
    \/ \E b \in Objects : ElementsSelector_stringify(b)

\* Call chains on a few objects.
Init == NoObject /\ limit = Limit(MaxBuilders, MaxOps)

Spec == Init /\ [][Next]_vars

\* Short call chains on more objects: two selectors and their combinations.
InitWide == NoObject /\ limit = Limit(WideBuilders, WideOps)

SpecWide == InitWide /\ [][Next]_vars

\* The calls on a rectangle, with no selector object.
InitRectangle == NoObject /\ limit = Limit(0, 0)

NextRectangle ==
    \/ \E width \in Sides, height \in Sides : Rectangle_new(width, height)
    \/ \E value \in Sides : Rectangle_setWidth(value)
    \/ \E value \in Sides : Rectangle_setHeight(value)
    \/ Rectangle_getArea

SpecRectangle == InitRectangle /\ [][NextRectangle]_vars

(*********************** what the claims speak of ***************************)

Parts == DOMAIN partOrder

\* The fragment kinds the selector may hold once.
Singletons == {"element", "id", "pseudo-element"}

\* obj[part](value): the fragment-setter named part.
Method(part, this, value) ==
    CASE part = "element"        -> element(this, value)
      [] part = "id"             -> id(this, value)
      [] part = "class"          -> class(this, value)
      [] part = "attr"           -> attr(this, value)
      [] part = "pseudo-class"   -> pseudoClass(this, value)
      [] part = "pseudo-element" -> pseudoElement(this, value)

\* The text stringify returns on the object b.
Text(b) == stringify(heap[b]).value

\* The highest rank among the setter calls of a history, 0 if there is none.
HighestUsed(log) ==
    LET ranks == {partOrder[log[i][1]] : i \in DOMAIN log} IN
    IF ranks = {} THEN 0 ELSE CHOOSE m \in ranks : \A r \in ranks : r <= m

\* The values passed by the calls of one kind in a history, in call order.
ValuesOf(log, part) ==
    LET sel == SelectSeq(log, LAMBDA e : e[1] = part) IN
    [i \in 1 .. Len(sel) |-> sel[i][2]]

\* The elements of an array property, none if it is undefined.
Elements(x) == IF x = Undefined THEN <<>> ELSE x[1]

IsPrefix(s, t) == Len(s) <= Len(t) /\ \A i \in 1 .. Len(s) : s[i] = t[i]

\* The values of a sequence, each preceded by sep.
RECURSIVE Prefixed(_, _)
Prefixed(vals, sep) ==
    IF vals = <<>> THEN "" ELSE sep \o Head(vals) \o Prefixed(Tail(vals), sep)

(******************************* C1 ****************************************)

\* A history that respects the rank order and sets no singleton twice.
ValidChain(log) ==
    /\ \A i \in DOMAIN log, j \in DOMAIN log :
          i < j => partOrder[log[i][1]] <= partOrder[log[j][1]]
    /\ \A k \in Singletons : Len(ValuesOf(log, k)) <= 1

\* The text C1 describes for a history: each kind that was set, in the fixed
\* order, with its mark; a kind that was never set gives nothing.
Expected(log) ==
    LET el == ValuesOf(log, "element")
        i  == ValuesOf(log, "id")
        cl == ValuesOf(log, "class")
        at == ValuesOf(log, "attr")
        pc == ValuesOf(log, "pseudo-class")
        pe == ValuesOf(log, "pseudo-element")
    IN  (IF el = <<>> THEN "" ELSE el[1])
        \o (IF i = <<>> THEN "" ELSE "#" \o i[1])
        \o Prefixed(cl, ".")
        \o (IF at = <<>> THEN "" ELSE "[" \o at[Len(at)] \o "]")
        \o Prefixed(pc, ":")
        \o (IF pe = <<>> THEN "" ELSE "::" \o pe[1])

\* C1: on every object started through the facade whose setter calls respect
\* the rank order and set no singleton twice, stringify returns the element,
\* then '#' and the id, then the classes each after '.', then the attribute
\* in brackets, then the pseudo-classes each after ':', then '::' and the
\* pseudo-element, each only if it was set.
C1_StringifyIsConcatenation ==
    \A b \in Objects :
        parts[b] = <<>> /\ ValidChain(calls[b]) => Text(b) = Expected(calls[b])

(******************************* C2 ****************************************)

\* C2: in every state, a fragment-setter called on an object raises the
\* ordering error exactly when its rank is strictly lower than the highest
\* rank among the setter calls that returned on that object.
C2_OrderErrorIffLowerRank ==
    \A b \in Objects, p \in Parts, v \in Values :
        (Method(p, heap[b], v).thrown = OrderError)
            <=> (partOrder[p] < HighestUsed(calls[b]))

\* An object that has used rank 3 after a lower one: id is refused for its
\* order, attr and pseudo-class are not.
C2_Witness ==
    \E b \in Objects :
        /\ Len(calls[b]) >= 2
        /\ HighestUsed(calls[b]) = 3
        /\ Method("id", heap[b], "a").thrown = OrderError
        /\ Method("attr", heap[b], "a").thrown = NoError
        /\ Method("pseudo-class", heap[b], "a").thrown = NoError

(******************************* C3 ****************************************)

SingletonFields == {"myElement", "myId", "myPseudoElement"}

\* C4: once one of element, id and pseudo-element holds a value on an
\* object, no call changes that value.
C4_SingletonNeverChanges ==
    [][\A b \in Objects, f \in SingletonFields :
          heap[b][f] # Undefined => heap'[b][f] = heap[b][f]]_vars

(******************************* C5 ****************************************)

\* The object the facade has just created.
New == Len(heap')

\* C5: for two objects A and B, the object that
\* cssSelectorBuilder.combine(A, c, B) returns stringifies to the text of A,
\* a space, c, a space and the text of B.
C5_CombineJoinsTexts ==
    [][\A s1 \in Objects : \A s2 \in Objects \ {s1}, c \in Combinators :
          cssSelectorBuilder_combine(s1, c, s2) =>
              stringify(heap'[New]).value = Text(s1) \o " " \o c \o " " \o Text(s2)]_vars

(******************************* C6 ****************************************)

\* The texts and combinators of a sequence, one space between neighbours.
Spaced(seq) == IF seq = <<>> THEN "" ELSE Head(seq) \o Prefixed(Tail(seq), " ")

\* C6: when one argument of cssSelectorBuilder.combine was itself returned
\* by combine, the new object stringifies to the texts of the selectors
\* combined, in order, with the combinators between them, one space around
\* each combinator, whichever of the two arguments is the nested one.
C6_NestedCombineIsFlat ==
    [][\A s1 \in Objects, s2 \in Objects, c \in Combinators :
          cssSelectorBuilder_combine(s1, c, s2) /\ Len(parts'[New]) >= 5 =>
              stringify(heap'[New]).value = Spaced(parts'[New])]_vars

(******************************* C7 ****************************************)

\* The most recent setter call that returned on the object b was of the kind part.
LastReturned(b, part) == calls[b] # <<>> /\ calls[b][Len(calls[b])][1] = part

\* In the state: the two arrays of every object hold the values of the class
\* (pseudoClass) calls that returned on it, in call order; and class
\* (pseudoClass) called right after a class (pseudoClass) call that returned
\* raises nothing.
ArraysFollowCalls ==
    \A b \in Objects :
        /\ Elements(heap[b].myClass) = ValuesOf(calls[b], "class")
        /\ Elements(heap[b].myPseudoClass) = ValuesOf(calls[b], "pseudo-class")
        /\ LastReturned(b, "class") =>
              \A v \in Values : class(heap[b], v).thrown = NoError
        /\ LastReturned(b, "pseudo-class") =>
              \A v \in Values : pseudoClass(heap[b], v).thrown = NoError

\* C7: the arrays are always as ArraysFollowCalls says, and no call removes
\* or reorders what the two arrays of an object hold.
C7_ArraysAppendOnly ==
    /\ []ArraysFollowCalls
    /\ [][\/ vars' = vars
          \/ \A b \in Objects :
                /\ IsPrefix(Elements(heap[b].myClass), Elements(heap'[b].myClass))
                /\ IsPrefix(Elements(heap[b].myPseudoClass), Elements(heap'[b].myPseudoClass))]_vars

\* An object on which class was called three times in a row, with a value
\* repeated, and accepts a fourth.
C7_Witness ==
    \E b \in Objects :
        /\ Elements(heap[b].myClass) = <<"a", "", "a">>
        /\ calls[b] = << <<"class", "a">>, <<"class", "">>, <<"class", "a">> >>
        /\ class(heap[b], "a").thrown = NoError

(******************************* C8 ****************************************)

\* C8: on an object that holds fragments only, that has an attribute and
\* has used no rank above 3, attr(v) returns, after which the object's
\* attribute is v and its text is the text of the other fragments followed
\* by v in brackets.
C8_AttrLastWriteWins ==
    [][\A b \in Objects, v \in Values :
          /\ ElementsSelector_attr(b, v)
          /\ parts[b] = <<>>
          /\ ValuesOf(calls[b], "attr") # <<>>
          /\ HighestUsed(calls[b]) <= 3
          => /\ calls'[b] = Append(calls[b], <<"attr", v>>)
             /\ heap'[b].myAttr = Some(v)
             /\ stringify(heap'[b]).value =
                   stringify([heap[b] EXCEPT !.myAttr = Undefined]).value
                       \o "[" \o v \o "]"]_vars

(******************************* C9 ****************************************)

\* C9: stringify raises nothing on any object of any state, and a stringify
\* call leaves every property of every object as it was (so that two calls
\* with no other call between them return the same text, the text being
\* computed from the properties alone).
C9_StringifyPureAndTotal ==
    /\ [](\A b \in Objects : stringify(heap[b]).thrown = NoError)
    /\ [][\A b \in Objects : (heap' = heap) \/ ~ElementsSelector_stringify(b)]_vars

\* Two objects stringify reads differently: one holding fragments, with a
\* pseudo-class and no class, and one made by combine.
C9_Witness ==
    \E b \in Objects, c \in Objects :
        /\ heap[b].myClass = Undefined
        /\ heap[b].myPseudoClass # Undefined
        /\ stringify(heap[b]) = Returned(NoError, "a:a")
        /\ heap[c].mySelector # Undefined
        /\ stringify(heap[c]) = Returned(NoError, "a:a + a:a")

(******************************* C10 ***************************************)

\* The step is a call of the facade that changes something.  It then adds an
\* object with its history: tested first, this spares trying every call of
\* the facade in the steps that add none.
FacadeCall ==
    /\ Len(calls') = Len(calls) + 1
    /\ \/ \E v \in Values : cssSelectorBuilder_element(v)
       \/ \E v \in Values : cssSelectorBuilder_id(v)
       \/ \E v \in Values : cssSelectorBuilder_class(v)
       \/ \E v \in Values : cssSelectorBuilder_attr(v)
       \/ \E v \in Values : cssSelectorBuilder_pseudoClass(v)
       \/ \E v \in Values : cssSelectorBuilder_pseudoElement(v)
       \/ \E s1 \in Objects, s2 \in Objects, c \in Combinators :
             cssSelectorBuilder_combine(s1, c, s2)

\* The step is a call of a fragment-setter of the object b that changes
\* something.  It then changes b or its history: tested first, as above.
\* (A call of stringify changes nothing.)
MethodCall(b) ==
    /\ Len(calls') = Len(calls)
    /\ heap'[b] # heap[b] \/ calls'[b] # calls[b]
    /\ \E p \in Parts, v \in Values : Invoke(b, p, v, Method(p, heap[b], v))

\* The objects of the set keep their properties in the step, and with them
\* the text stringify computes from the properties.
Untouched(objs) == \A i \in objs : heap'[i] = heap[i]

\* C10: a call of the facade returns an object that did not exist and leaves
\* every existing object as it was, its arguments included; a call of a
\* method of an object leaves every other object as it was.
C10_ObjectsIndependent ==
    [][\/ vars' = vars
       \/ /\ (Len(heap') = Len(heap) + 1 /\ Untouched(Objects)) \/ ~FacadeCall
          /\ \A b \in Objects : Untouched(Objects \ {b}) \/ ~MethodCall(b)]_vars

\* Two objects in different states, the first after two setter calls, the
\* second after one.
C10_Witness ==
    /\ Len(heap) = 2
    /\ Len(calls[1]) = 2
    /\ Len(calls[2]) = 1
    /\ Text(1) # Text(2)

(******************************* C11 ***************************************)

\* C11: the object Rectangle(width, height) returns has the fields width and
\* height equal to the arguments, and getArea returns the product of the
\* width and the height the object holds when it is called.
C11_RectangleFieldsAndArea ==
    [][/\ \A width \in Sides, height \in Sides :
             Rectangle_new(width, height) =>
                 /\ rect'.obj[1].width = width
                 /\ rect'.obj[1].height = height
       /\ Rectangle_getArea =>
             /\ rect'.area = Some(rect.obj[1].width * rect.obj[1].height)
             /\ rect'.obj = rect.obj]_vars

\* A rectangle made as 2 by 2 whose height the caller has since set to -1,
\* and for which getArea has returned -2.
C11_Witness ==
    /\ rect.made = Some(<<2, 2>>)
    /\ rect.obj = Some(Rectangle(2, -1))
    /\ rect.area = Some(-2)

(******************************* C12 ***************************************)

\* C12: a singleton setter called on an object on which it has returned and
\* on which a setter of a higher rank has returned since raises the ordering
\* error; and whenever a singleton setter raises the duplication error, the
\* ordering check of that call has passed.
C12_OrderCheckFirst ==
    \A b \in Objects, k \in Singletons, v \in Values :
        LET thrown == Method(k, heap[b], v).thrown IN
        /\ ValuesOf(calls[b], k) # <<>> /\ partOrder[k] < HighestUsed(calls[b])
              => thrown = OrderError
        /\ thrown = DuplicateError
              => /\ checkOrder(heap[b], k).thrown = NoError
                 /\ partOrder[k] >= HighestUsed(calls[b])

\* The object of facade.element('a').id('a').class('a'): it holds an element
\* and an id, and both setters are refused for their order.
C12_Witness ==
    \E b \in Objects :
        /\ calls[b] = << <<"element", "a">>, <<"id", "a">>, <<"class", "a">> >>
        /\ Truthy(heap[b].myElement) /\ Truthy(heap[b].myId)
        /\ Method("element", heap[b], "a").thrown = OrderError
        /\ Method("id", heap[b], "a").thrown = OrderError

(******************************* C13 ***************************************)

\* The object holds the triple combine stores.
Joined(this) == this.mySelector # Undefined

\* The properties the fragment-setters assign.
FragmentFields ==
    {"myElement", "myId", "myClass", "myAttr", "myPseudoClass", "myPseudoElement"}

\* C13: in every state, an object that holds the triple of combine holds no
\* fragment: none of the properties the fragment-setters assign is set on it
\* (so that no fragment-setter has returned on it).
C13_JoinedHasNoFragments ==
    \A b \in Objects :
        Joined(heap[b]) =>
            /\ \A f \in FragmentFields : heap[b][f] = Undefined
            /\ calls[b] = <<>>

(******************************* C14 ***************************************)

\* C14: no call changes the text that stringify returns on an object made
\* by combine.
C14_CombinedTextIsFinal ==
    [][\A b \in Objects :
          Joined(heap[b]) => stringify(heap'[b]).value = stringify(heap[b]).value]_vars

(******************************* C15 ***************************************)

\* C15: in every state the cursor currOrder of an object is the highest rank
\* among the setter calls that returned on it, 0 if there is none; no call
\* lowers it; and a setter call that returns leaves it at the setter's rank.
C15_CursorIsHighestRank ==
    /\ [](\A b \in Objects : heap[b].currOrder = HighestUsed(calls[b]))
    /\ [][\/ vars' = vars
          \/ \A b \in Objects :
                /\ heap'[b].currOrder >= heap[b].currOrder
                /\ calls'[b] # calls[b] =>
                      heap'[b].currOrder = partOrder[calls'[b][Len(calls'[b])][1]]]_vars

\* An object whose cursor has moved from 1 to 5, and one made by combine,
\* whose cursor is 0.
C15_Witness ==
    \E b \in Objects, c \in Objects :
        /\ calls[b] = << <<"id", "a">>, <<"pseudo-element", "a">> >>
        /\ heap[b].currOrder = 5
        /\ Joined(heap[c])
        /\ heap[c].currOrder = 0

(******************************* C16 ***************************************)

\* C16: in every state, a fragment-setter call that raises the ordering or
\* the duplication error leaves the object with the properties it had, the
\* cursor included, and so with the text stringify returned before.
C16_FailedCallChangesNothing ==
    \A b \in Objects, p \in Parts, v \in Values :
        LET out == Method(p, heap[b], v) IN
        out.thrown # NoError =>
            /\ out.thrown \in {OrderError, DuplicateError}
            /\ out.this = heap[b]
            /\ stringify(out.this) = stringify(heap[b])

\* An object on which id is refused as a duplicate, after checkOrder has
\* assigned the cursor, and element for its order.
C16_Witness ==
    \E b \in Objects :
        /\ Len(calls[b]) >= 2
        /\ heap[b].currOrder = 1
        /\ checkOrder(heap[b], "id").thrown = NoError
        /\ Method("id", heap[b], "a").thrown = DuplicateError
        /\ Method("element", heap[b], "a").thrown = OrderError

(******************************* C17 ***************************************)

\* The triple an object holds.
Triple(this) == <<this.mySelector, this.myCombinator, this.mySelector2>>

\* C17: the object cssSelectorBuilder.combine(A, c, B) returns holds the
\* texts stringify returns on A and on B when combine is called; and a
\* fragment-setter call on another object changes neither the triple nor
\* the text of an object made by combine.
C17_CombineTakesSnapshot ==
    [][\/ vars' = vars
       \/ /\ \A s1 \in Objects, s2 \in Objects, c \in Combinators :
                \/ Len(heap') # Len(heap) + 1
                \/ ~Joined(heap'[New])
                \/ ~cssSelectorBuilder_combine(s1, c, s2)
                \/ Triple(heap'[New]) = <<Some(Text(s1)), Some(c), Some(Text(s2))>>
          /\ \A j \in Objects :
                \/ ~Joined(heap[j])
                \/ /\ Triple(heap'[j]) = Triple(heap[j])
                   /\ stringify(heap'[j]) = stringify(heap[j])
                \/ ~(\E b \in Objects \ {j} : MethodCall(b))]_vars

\* The object made by combine from an object on which id was called
\* afterwards: it holds the text of before.
C17_Witness ==
    /\ Len(heap) = 2
    /\ calls[1] = << <<"element", "a">>, <<"id", "a">> >>
    /\ Text(1) = "a#a"
    /\ Triple(heap[2]) = <<Some("a"), Some("+"), Some("a")>>
    /\ Text(2) = "a + a"

(******************************* C18 ***************************************)

\* The property the fragment-setter named part assigns.
FieldOf(part) ==
    CASE part = "element"        -> "myElement"
      [] part = "id"             -> "myId"
      [] part = "class"          -> "myClass"
      [] part = "attr"           -> "myAttr"
      [] part = "pseudo-class"   -> "myPseudoClass"
      [] part = "pseudo-element" -> "myPseudoElement"

\* An object that holds the one fragment value of the kind part and nothing
\* else, with the cursor at the rank of part.
OneFragment(part, value) ==
    [f \in DOMAIN ElementsSelector |->
        IF f = "currOrder" THEN partOrder[part]
        ELSE IF f # FieldOf(part) THEN Undefined
        ELSE IF part \in {"class", "pseudo-class"} THEN Some(<<value>>)
        ELSE Some(value)]

\* C18: each of the six start operations of the facade, with any value,
\* raises nothing and adds an object that holds that one fragment and no
\* triple, with the cursor at the fragment's rank; and a setter call that
\* returns on an object returns that object: it adds none, and the object
\* is as the setter left it.
C18_StartsNeverRaise ==
    /\ [](\A p \in Parts, v \in Values : Method(p, ElementsSelector, v).thrown = NoError)
    /\ [][\/ vars' = vars
          \/ /\ \A p \in Parts, v \in Values :
                   \/ Len(heap') # Len(heap) + 1
                   \/ Joined(heap'[New])
                   \/ ~Start(p, v, Method(p, ElementsSelector, v))
                   \/ /\ heap'[New] = OneFragment(p, v)
                      /\ calls'[New] = << <<p, v>> >>
             /\ \A b \in Objects, p \in Parts, v \in Values :
                   \/ Len(heap') # Len(heap)
                   \/ calls'[b] # Append(calls[b], <<p, v>>)
                   \/ ~Invoke(b, p, v, Method(p, heap[b], v))
                   \/ heap'[b] = Method(p, heap[b], v).this]_vars

\* An object started with the empty text as its pseudo-element, and one
\* started with a class on which a later setter has returned.
C18_Witness ==
    \E b \in Objects, c \in Objects :
        /\ heap[b] = OneFragment("pseudo-element", "")
        /\ calls[c] = << <<"class", "a">>, <<"attr", "a">> >>
        /\ heap[c] = [OneFragment("class", "a") EXCEPT !.currOrder = 3, !.myAttr = Some("a")]

====
